---- MODULE Spec2Model ----
(***************************************************************************)
(* A model of blagbl: the BLAG blocklist reader.                           *)
(*                                                                         *)
(*   src/blagbl/__init__.py    class BlagBL (archive extraction, parsing)  *)
(*   src/blagbl/tools/main.py  the "tools" front end, built on BlagBL      *)
(*   src/blagbl/main.py        the "main" front end, built on functions    *)
(*                                                                         *)
(* Texts are sequences of one-character strings.  An optional value        *)
(* (Python's None or a value) is a sequence of length 0 or 1.  A Python    *)
(* dict is a record [factory, items]: items is the sequence of its         *)
(* key/value pairs in insertion order, factory is "list" for a             *)
(* defaultdict(list) and "none" for a plain dict.                          *)
(***************************************************************************)
EXTENDS Integers, Sequences, FiniteSets, TLC

VARIABLES frontend,    \* which script runs: "tools" or "main"
          archive,     \* the members of the zip file at the database path
          blag_list,   \* optional text: bl.blag_list / main()'s blag_list
          map_list,    \* optional text: bl.map_list / main()'s map_list
          ips,         \* optional dict: bl._ips / main()'s ips
          raised,      \* "none", or the exception that ended the run
          last,        \* the operation that ran last
          printed,     \* optional line printed by the last address lookup
          query,       \* the argument of the last lookup
          asn_query,   \* optional [asn, limit] of the last lookup_asn call
          asn_results, \* the list returned by the last lookup_asn call
          results,     \* the result list handed to output_pcap_filter
          expressions  \* optional list of the terms output_pcap_filter wrote

vars == <<frontend, archive, blag_list, map_list, ips, raised, last,
          printed, query, asn_query, asn_results, results, expressions>>

----------------------------------------------------------------------------
(* Bounds of the model.                                                    *)

MaxMapRecs == 2
MaxBlagRecs == 2
MaxMembers == 3
MaxLimit == 2
V4Bits == 3
V6Bits == 5

----------------------------------------------------------------------------
(* Python values.                                                          *)

None == <<>>
Some(v) == <<v>>
IsNone(o) == Len(o) = 0
Val(o) == o[1]

\* bool(text): None and "" are falsy.
Truthy(o) == ~IsNone(o) /\ Val(o) # <<>>

Undecodable == <<"\\xff">>

EmptyDict(factory) == [factory |-> factory, items |-> <<>>]

DictKeys(d) == {d.items[i].key : i \in 1..Len(d.items)}

DictHas(d, k) == k \in DictKeys(d)

DictIndex(d, k) == CHOOSE i \in 1..Len(d.items) : d.items[i].key = k

DictValue(d, k) == d.items[DictIndex(d, k)].value

\* d[k] = v: an existing key keeps its position, a new key goes last.
dict_setitem(d, k, v) ==
    IF DictHas(d, k)
    THEN [d EXCEPT !.items[DictIndex(d, k)] = [key |-> k, value |-> v]]
    ELSE [d EXCEPT !.items = Append(@, [key |-> k, value |-> v])]

\* d[k]: a defaultdict inserts factory() under a missing key and returns it,
\* a plain dict raises KeyError.
dict_getitem(d, k) ==
    IF DictHas(d, k)
    THEN [raised |-> "none", value |-> DictValue(d, k), dict |-> d]
    ELSE IF d.factory = "list"
    THEN [raised |-> "none", value |-> <<>>,
          dict |-> dict_setitem(d, k, <<>>)]
    ELSE [raised |-> "KeyError", value |-> <<>>, dict |-> d]

----------------------------------------------------------------------------
(* Text handling: str.split, csv.reader and ', '.join.                     *)

IsSpace(c) == c \in {" ", "\n", "\t"}

RECURSIVE str_split_from(_, _, _)
str_split_from(s, cur, acc) ==
    IF s = <<>>
    THEN IF cur = <<>> THEN acc ELSE Append(acc, cur)
    ELSE IF IsSpace(Head(s))
    THEN str_split_from(Tail(s), <<>>,
                        IF cur = <<>> THEN acc ELSE Append(acc, cur))
    ELSE str_split_from(Tail(s), Append(cur, Head(s)), acc)

\* text.split(): the maximal runs of non-whitespace characters.
str_split(s) == str_split_from(s, <<>>, <<>>)

RECURSIVE csv_row_from(_, _, _)
csv_row_from(s, cur, acc) ==
    IF s = <<>>
    THEN Append(acc, cur)
    ELSE IF Head(s) = ","
    THEN csv_row_from(Tail(s), <<>>, Append(acc, cur))
    ELSE csv_row_from(Tail(s), Append(cur, Head(s)), acc)

\* One row of csv.reader: the comma-separated fields of a line (the lines
\* hold no quote character); an empty line gives an empty row.
csv_row(line) == IF line = <<>> THEN <<>> ELSE csv_row_from(line, <<>>, <<>>)

csv_reader(lines) == [i \in 1..Len(lines) |-> csv_row(lines[i])]

RECURSIVE str_join(_, _)
str_join(sep, parts) ==
    IF parts = <<>> THEN <<>>
    ELSE IF Len(parts) = 1 THEN Head(parts)
    ELSE Head(parts) \o sep \o str_join(sep, Tail(parts))

----------------------------------------------------------------------------
(* The archive: zipfile.ZipFile, infolist, open.                           *)

\* ZipFile.open(name): the member registered under the name, which is the
\* last member of the archive carrying it.
zip_open(items, name) ==
    LET i == CHOOSE j \in 1..Len(items) :
                 /\ items[j].filename = name
                 /\ \A k \in (j+1)..Len(items) : items[k].filename # name
    IN  items[i].data

\* fetch_blag_files(storage_file): the two texts, or an exception.
fetch_blag_files(items) ==
    IF Len(items) < 3
    THEN [raised |-> "IndexError", blag |-> None, map |-> None]
    ELSE LET blag_contents == zip_open(items, items[2].filename)
             map_contents == zip_open(items, items[3].filename)
         IN  IF blag_contents = Undecodable \/ map_contents = Undecodable
             THEN [raised |-> "UnicodeDecodeError",
                   blag |-> None, map |-> None]
             ELSE [raised |-> "none", blag |-> Some(blag_contents),
                   map |-> Some(map_contents)]

\* BlagBL.extract_blag_files(): blag and map are the values assigned to
\* self.blag_list and self.map_list (None: not assigned).
extract_blag_files(items) ==
    IF Len(items) < 3
    THEN [raised |-> "IndexError", blag |-> None, map |-> None]
    ELSE LET blag_contents == zip_open(items, items[2].filename)
             map_contents == zip_open(items, items[3].filename)
         IN  IF blag_contents = Undecodable
             THEN [raised |-> "UnicodeDecodeError",
                   blag |-> None, map |-> None]
             ELSE IF map_contents = Undecodable
             THEN [raised |-> "UnicodeDecodeError",
                   blag |-> Some(blag_contents), map |-> None]
             ELSE [raised |-> "none", blag |-> Some(blag_contents),
                   map |-> Some(map_contents)]

----------------------------------------------------------------------------
(* Parsing.                                                                *)

EmptyMap == [k \in {} |-> <<>>]

MapSet(m, k, v) == [x \in DOMAIN m \cup {k} |-> IF x = k THEN v ELSE m[x]]

\* build_blag_map passing over a record that has no second field.
RECURSIVE build_blag_map_skip_short(_, _)
build_blag_map_skip_short(rows, m) ==
    IF rows = <<>>
    THEN [raised |-> "none", map |-> m]
    ELSE LET row == Head(rows)
         IN  IF Len(row) < 2
             THEN build_blag_map_skip_short(Tail(rows), m)
             ELSE build_blag_map_skip_short(Tail(rows),
                                            MapSet(m, row[2], row[1]))

\* for row in map_csv: blag_map[row[1]] = row[0]
RECURSIVE build_blag_map(_, _)
build_blag_map(rows, m) ==
    IF rows = <<>>
    THEN [raised |-> "none", map |-> m]
    ELSE LET row == Head(rows)
         IN  IF Len(row) < 2
             THEN [raised |-> "IndexError", map |-> m]
             ELSE build_blag_map(Tail(rows), MapSet(m, row[2], row[1]))

\* build_ips with a repeated address keeping its first record.
RECURSIVE build_ips_first_wins(_, _, _)
build_ips_first_wins(rows, blag_map, d) ==
    IF rows = <<>>
    THEN [raised |-> "none", ips |-> d]
    ELSE LET row == Head(rows)
         IN  IF Len(row) = 0
             THEN [raised |-> "IndexError", ips |-> d]
             ELSE LET ip == Head(row)
                      codes == Tail(row)
                  IN  IF \E i \in 1..Len(codes) :
                             codes[i] \notin DOMAIN blag_map
                      THEN [raised |-> "KeyError", ips |-> d]
                      ELSE build_ips_first_wins(Tail(rows), blag_map,
                               IF DictHas(d, ip) THEN d
                               ELSE dict_setitem(d, ip,
                                        [i \in 1..Len(codes) |->
                                            blag_map[codes[i]]]))

\* build_ips passing over a record that names an unknown code.
RECURSIVE build_ips_skip_unresolved(_, _, _)
build_ips_skip_unresolved(rows, blag_map, d) ==
    IF rows = <<>>
    THEN [raised |-> "none", ips |-> d]
    ELSE LET row == Head(rows)
             ip == Head(row)
             codes == Tail(row)
         IN  IF \E i \in 1..Len(codes) : codes[i] \notin DOMAIN blag_map
             THEN build_ips_skip_unresolved(Tail(rows), blag_map, d)
             ELSE build_ips_skip_unresolved(Tail(rows), blag_map,
                      dict_setitem(d, ip,
                          [i \in 1..Len(codes) |-> blag_map[codes[i]]]))

\* for row in blag_csv: ip = row.pop(0); ips[ip] = [blag_map[x] for x in row]
RECURSIVE build_ips(_, _, _)
build_ips(rows, blag_map, d) ==
    IF rows = <<>>
    THEN [raised |-> "none", ips |-> d]
    ELSE LET row == Head(rows)
         IN  IF Len(row) = 0
             THEN [raised |-> "IndexError", ips |-> d]
             ELSE LET ip == Head(row)
                      codes == Tail(row)
                  IN  IF \E i \in 1..Len(codes) :
                             codes[i] \notin DOMAIN blag_map
                      THEN [raised |-> "KeyError", ips |-> d]
                      ELSE build_ips(Tail(rows), blag_map,
                               dict_setitem(d, ip,
                                   [i \in 1..Len(codes) |->
                                       blag_map[codes[i]]]))

\* What parse_blag_contents returns: the dict, or None when it raised.
ParseResult(m, r) ==
    IF m.raised # "none" THEN [raised |-> m.raised, ips |-> None]
    ELSE IF r.raised # "none" THEN [raised |-> r.raised, ips |-> None]
    ELSE [raised |-> "none", ips |-> Some(r.ips)]

\* parse_blag_contents(blag_list, map_list) of main.py
fn_parse_blag_contents(blag, map) ==
    LET m == build_blag_map(csv_reader(str_split(map)), EmptyMap)
        r == build_ips(csv_reader(str_split(blag)), m.map, EmptyDict("none"))
    IN  ParseResult(m, r)

\* build_ips extending the list an address already has.
RECURSIVE build_ips_accumulate(_, _, _)
build_ips_accumulate(rows, blag_map, d) ==
    IF rows = <<>>
    THEN [raised |-> "none", ips |-> d]
    ELSE LET row == Head(rows)
             ip == Head(row)
             codes == Tail(row)
         IN  IF \E i \in 1..Len(codes) : codes[i] \notin DOMAIN blag_map
             THEN [raised |-> "KeyError", ips |-> d]
             ELSE build_ips_accumulate(Tail(rows), blag_map,
                      dict_setitem(d, ip,
                          (IF DictHas(d, ip) THEN DictValue(d, ip) ELSE <<>>)
                          \o [i \in 1..Len(codes) |-> blag_map[codes[i]]]))

\* cls_parse_texts appending to the default list of an address.
cls_parse_texts_accumulate(blag, map) ==
    LET m == build_blag_map(csv_reader(str_split(map)), EmptyMap)
        r == build_ips_accumulate(csv_reader(str_split(blag)), m.map,
                                  EmptyDict("list"))
    IN  ParseResult(m, r)

\* cls_parse_texts building a plain dict.
cls_parse_texts_plain_dict(blag, map) ==
    LET m == build_blag_map(csv_reader(str_split(map)), EmptyMap)
        r == build_ips(csv_reader(str_split(blag)), m.map, EmptyDict("none"))
    IN  ParseResult(m, r)

\* The parsing half of BlagBL.parse_blag_contents (after the texts are there)
cls_parse_texts(blag, map) ==
    LET m == build_blag_map(csv_reader(str_split(map)), EmptyMap)
        r == build_ips(csv_reader(str_split(blag)), m.map, EmptyDict("list"))
    IN  ParseResult(m, r)

\* BlagBL.parse_blag_contents() on an object with the fields of self and
\* the archive at self.database: the fields afterwards, and what it returns.
cls_parse_blag_contents(self, items) ==
    LET e == IF ~Truthy(self.blag_list) \/ ~Truthy(self.map_list)
             THEN extract_blag_files(items)
             ELSE [raised |-> "none", blag |-> None, map |-> None]
        bl == IF IsNone(e.blag) THEN self.blag_list ELSE e.blag
        ml == IF IsNone(e.map) THEN self.map_list ELSE e.map
    IN  IF e.raised # "none"
        THEN [blag_list |-> bl, map_list |-> ml, ips |-> self.ips,
              raised |-> e.raised, ret |-> None]
        ELSE LET p == cls_parse_texts(Val(bl), Val(ml))
             IN  [blag_list |-> bl, map_list |-> ml,
                  ips |-> IF p.raised = "none" THEN p.ips ELSE self.ips,
                  raised |-> p.raised, ret |-> p.ips]

----------------------------------------------------------------------------
(* Address lookups of the two front ends.                                  *)

FieldWidth == 40

RECURSIVE Spaces(_)
Spaces(n) == IF n <= 0 THEN <<>> ELSE <<" ">> \o Spaces(n - 1)

\* f"{ip:<40} {', '.join(descs)}"
format_line(ip, descs) ==
    ip \o Spaces(FieldWidth - Len(ip)) \o <<" ">>
       \o str_join(<<",", " ">>, descs)

\* tools/main.py: print(f"{ip:<40} {', '.join(bl.ips[ip])}")
cls_lookup(d, ip) ==
    LET g == dict_getitem(d, ip)
    IN  [raised |-> g.raised, dict |-> g.dict,
         printed |-> IF g.raised = "none"
                     THEN Some(format_line(ip, g.value)) ELSE None]

\* main.py: if ip in ips: print(f"{ip:<40} {', '.join(ips[ip])}")
fn_lookup(d, ip) ==
    [raised |-> "none", dict |-> d,
     printed |-> IF DictHas(d, ip)
                 THEN Some(format_line(ip, DictValue(d, ip))) ELSE None]

----------------------------------------------------------------------------
(* The inputs the model draws from.                                        *)

\* Lookups ask for an address the entries may list and for one they never do.
Queries == {<<"a">>, <<"b">>, <<"c">>}

\* Mapping records: one too short, and well-formed ones that share a code.
MapRows == {<< <<"d">> >>, << <<"d">>, <<"m">> >>,
            << <<"e">>, <<"m">> >>, << <<"e">>, <<"n">> >>}

RECURSIVE SeqsUpTo(_, _)
SeqsUpTo(S, n) ==
    IF n = 0 THEN {<<>>}
    ELSE LET shorter == SeqsUpTo(S, n - 1)
         IN  shorter \cup {Append(q, x) : q \in shorter, x \in S}

\* Entries records: a bare address, one code, two codes.
BlagRows == {<< <<"a">> >>, << <<"a">>, <<"m">> >>, << <<"a">>, <<"n">> >>,
             << <<"b">>, <<"m">> >>, << <<"b">>, <<"n">>, <<"m">> >>}

\* The text of a list of records: comma-separated fields, one record a line.
format_text(rows) ==
    str_join(<<>>, [i \in 1..Len(rows) |->
                       str_join(<<",">>, rows[i]) \o <<"\n">>])

MapTexts == {format_text(rows) : rows \in SeqsUpTo(MapRows, MaxMapRecs)}

BlagTexts == {format_text(rows) : rows \in SeqsUpTo(BlagRows, MaxBlagRecs)}

\* A published archive: a leading member, then the entries and the mapping.
DatasetArchive(blag, map) ==
    << [filename |-> "README", data |-> <<>>],
       [filename |-> "blag", data |-> blag],
       [filename |-> "map", data |-> map] >>

\* A value a caller may store through the ips setter before loading.
PresetIps == Some(dict_setitem(EmptyDict("list"), <<"z">>, <<>>))

----------------------------------------------------------------------------
(* The load and the address lookups.                                       *)

Fresh ==
    /\ blag_list = None
    /\ map_list = None
    /\ ips = None
    /\ raised = "none"
    /\ last = "init"
    /\ printed = None
    /\ query = None
    /\ asn_query = None
    /\ asn_results = <<>>
    /\ results = <<>>
    /\ expressions = None

Init ==
    /\ frontend \in {"tools", "main"}
    /\ archive \in {DatasetArchive(b, m) : b \in BlagTexts, m \in MapTexts}
    /\ Fresh

Self == [blag_list |-> blag_list, map_list |-> map_list, ips |-> ips]

\* BlagBL.ips setter, used by a caller before the load.
SetIps ==
    /\ frontend = "tools" /\ raised = "none" /\ last = "init"
    /\ ips' = PresetIps
    /\ last' = "set_ips"
    /\ UNCHANGED <<frontend, archive, blag_list, map_list, raised, printed,
                   query, asn_query, asn_results, results, expressions>>

\* tools/main.py line 164: bl.parse_blag_contents()
ClsParse ==
    /\ frontend = "tools" /\ raised = "none" /\ last \in {"init", "set_ips"}
    /\ LET r == cls_parse_blag_contents(Self, archive)
       IN  /\ blag_list' = r.blag_list
           /\ map_list' = r.map_list
           /\ ips' = r.ips
           /\ raised' = r.raised
    /\ last' = "parse"
    /\ UNCHANGED <<frontend, archive, printed, query, asn_query,
                   asn_results, results, expressions>>

\* main.py line 305: (blag_list, map_list) = fetch_blag_files(database)
FnFetch ==
    /\ frontend = "main" /\ raised = "none" /\ last = "init"
    /\ LET r == fetch_blag_files(archive)
       IN  /\ raised' = r.raised
           /\ blag_list' = IF r.raised = "none" THEN r.blag ELSE blag_list
           /\ map_list' = IF r.raised = "none" THEN r.map ELSE map_list
    /\ last' = "fetch"
    /\ UNCHANGED <<frontend, archive, ips, printed, query, asn_query,
                   asn_results, results, expressions>>

\* main.py line 308: ips = parse_blag_contents(blag_list, map_list)
FnParse ==
    /\ frontend = "main" /\ raised = "none" /\ last = "fetch"
    /\ LET r == fn_parse_blag_contents(Val(blag_list), Val(map_list))
       IN  /\ raised' = r.raised
           /\ ips' = IF r.raised = "none" THEN r.ips ELSE ips
    /\ last' = "parse"
    /\ UNCHANGED <<frontend, archive, blag_list, map_list, printed, query,
                   asn_query, asn_results, results, expressions>>

Loaded == raised = "none" /\ last \in {"parse", "lookup"}

\* tools/main.py lines 166-167: one turn of the loop over args.addresses
ClsLookup(ip) ==
    /\ frontend = "tools" /\ Loaded
    /\ LET r == cls_lookup(Val(ips), ip)
       IN  /\ ips' = Some(r.dict)
           /\ raised' = r.raised
           /\ printed' = r.printed
    /\ query' = Some(ip)
    /\ last' = "lookup"
    /\ UNCHANGED <<frontend, archive, blag_list, map_list, asn_query,
                   asn_results, results, expressions>>

\* main.py lines 310-312: one turn of the loop over args.addresses
FnLookup(ip) ==
    /\ frontend = "main" /\ Loaded
    /\ LET r == fn_lookup(Val(ips), ip)
       IN  /\ ips' = Some(r.dict)
           /\ raised' = r.raised
           /\ printed' = r.printed
    /\ query' = Some(ip)
    /\ last' = "lookup"
    /\ UNCHANGED <<frontend, archive, blag_list, map_list, asn_query,
                   asn_results, results, expressions>>

Next ==
    \/ SetIps
    \/ ClsParse
    \/ FnFetch
    \/ FnParse
    \/ \E ip \in Queries : ClsLookup(ip)
    \/ \E ip \in Queries : FnLookup(ip)

Spec == Init /\ [][Next]_vars

----------------------------------------------------------------------------
(* Archive extraction on archives of any shape.                            *)

MemberNames == {"x", "y", "z"}
MemberData == {<<"A">>, <<"B">>, Undecodable}
Members == [filename : MemberNames, data : MemberData]

InitArchive ==
    /\ frontend \in {"tools", "main"}
    /\ archive \in SeqsUpTo(Members, MaxMembers)
    /\ Fresh

\* A caller's bl.extract_blag_files()
ClsExtract ==
    /\ frontend = "tools" /\ raised = "none" /\ last = "init"
    /\ LET e == extract_blag_files(archive)
       IN  /\ blag_list' = IF IsNone(e.blag) THEN blag_list ELSE e.blag
           /\ map_list' = IF IsNone(e.map) THEN map_list ELSE e.map
           /\ raised' = e.raised
    /\ last' = "extract"
    /\ UNCHANGED <<frontend, archive, ips, printed, query, asn_query,
                   asn_results, results, expressions>>

NextArchive == ClsExtract \/ FnFetch

SpecArchive == InitArchive /\ [][NextArchive]_vars

----------------------------------------------------------------------------
(* Lookup by ASN.  The repository calls lookup_asn (process_fsdb) and does *)
(* not define it; it is modelled from section 4.4 of the specification.   *)

\* The ASN of a descriptor: its leading component.
RECURSIVE asn_of(_)
asn_of(descriptor) ==
    IF descriptor = <<>> \/ Head(descriptor) = "/" THEN <<>>
    ELSE <<Head(descriptor)>> \o asn_of(Tail(descriptor))

EntryHasAsn(entry, asn) ==
    \E i \in 1..Len(entry.value) : asn_of(entry.value[i]) = asn

\* lookup_asn scanning with the limit compared one result too late.
RECURSIVE lookup_asn_scan_late(_, _, _, _)
lookup_asn_scan_late(items, asn, limit, acc) ==
    IF items = <<>> THEN acc
    ELSE IF limit > 0 /\ Len(acc) > limit THEN acc
    ELSE lookup_asn_scan_late(Tail(items), asn, limit,
             IF EntryHasAsn(Head(items), asn)
             THEN Append(acc, Head(items)) ELSE acc)

\* A linear scan of the entries in iteration order, stopped once limit
\* results are collected when limit > 0.
RECURSIVE lookup_asn_scan(_, _, _, _)
lookup_asn_scan(items, asn, limit, acc) ==
    IF items = <<>> THEN acc
    ELSE IF limit > 0 /\ Len(acc) >= limit THEN acc
    ELSE lookup_asn_scan(Tail(items), asn, limit,
             IF EntryHasAsn(Head(items), asn)
             THEN Append(acc, Head(items)) ELSE acc)

lookup_asn(d, asn, limit) == lookup_asn_scan(d.items, asn, limit, <<>>)

Asns == {<<"d">>, <<"e">>}

InitAsn ==
    /\ frontend = "tools"
    /\ archive \in {DatasetArchive(b, m) : b \in BlagTexts, m \in MapTexts}
    /\ Fresh

\* i2a.lookup_asn(asn, limit=limit); process_fsdb calls it with limit=1
LookupAsn(asn, limit) ==
    /\ raised = "none" /\ last \in {"parse", "lookup_asn"}
    /\ asn_query' = Some([asn |-> asn, limit |-> limit])
    /\ asn_results' = lookup_asn(Val(ips), asn, limit)
    /\ last' = "lookup_asn"
    /\ UNCHANGED <<frontend, archive, blag_list, map_list, ips, raised,
                   printed, query, results, expressions>>

NextAsn ==
    \/ ClsParse
    \/ \E asn \in Asns, limit \in 0..MaxLimit : LookupAsn(asn, limit)

SpecAsn == InitAsn /\ [][NextAsn]_vars

----------------------------------------------------------------------------
(* The pcap filter: output_pcap_filter and the range summarizer.  The      *)
(* address widths are scaled from 32 and 128 bits down to V4Bits and       *)
(* V6Bits; the family test of the code, left <= 2**33, keeps its place one *)
(* bit above the IPv4 width.                                               *)

RECURSIVE Pow2(_)
Pow2(n) == IF n = 0 THEN 1 ELSE 2 * Pow2(n - 1)

\* int.bit_length()
RECURSIVE bit_length(_)
bit_length(n) == IF n = 0 THEN 0 ELSE 1 + bit_length(n \div 2)

RECURSIVE TrailingZeros(_)
TrailingZeros(n) == IF n % 2 = 1 THEN 0 ELSE 1 + TrailingZeros(n \div 2)

\* ipaddress._count_righthand_zero_bits(number, bits)
count_righthand_zero_bits(number, bits) ==
    IF number = 0 THEN bits
    ELSE IF TrailingZeros(number) < bits THEN TrailingZeros(number) ELSE bits

MaxPrefixLen(version) == IF version = 4 THEN V4Bits ELSE V6Bits

AllOnes(version) == Pow2(MaxPrefixLen(version)) - 1

\* The while loop of ipaddress.summarize_address_range
RECURSIVE summarize_from(_, _, _, _)
summarize_from(first_int, last_int, version, acc) ==
    IF first_int > last_int THEN acc
    ELSE LET ip_bits == MaxPrefixLen(version)
             zeros == count_righthand_zero_bits(first_int, ip_bits)
             span == bit_length(last_int - first_int + 1) - 1
             nbits == IF zeros < span THEN zeros ELSE span
             net == [version |-> version, network_address |-> first_int,
                     prefixlen |-> ip_bits - nbits]
             next_int == first_int + Pow2(nbits)
         IN  IF next_int - 1 = AllOnes(version)
             THEN Append(acc, net)
             ELSE summarize_from(next_int, last_int, version, Append(acc, net))

\* ipaddress.summarize_address_range(first, last) on addresses of a version
summarize_address_range(first_ip, last_ip, version) ==
    IF first_ip > last_ip
    THEN [raised |-> "ValueError", nets |-> <<>>]
    ELSE [raised |-> "none",
          nets |-> summarize_from(first_ip, last_ip, version, <<>>)]

\* The family test of output_pcap_filter: if left <= 2**33
FamilyOf(left) == IF left <= Pow2(V4Bits + 1) THEN 4 ELSE 6

\* IPv4Address(n) / IPv6Address(n) accept 0 .. 2^bits - 1.
AddressOk(n, version) == 0 <= n /\ n <= AllOnes(version)

\* output_pcap_filter(results): the terms written, or the exception.
RECURSIVE pcap_terms(_, _)
pcap_terms(rs, acc) ==
    IF rs = <<>> THEN [raised |-> "none", expressions |-> Some(acc)]
    ELSE LET left == Head(rs).ip_range[1]
             right == Head(rs).ip_range[2]
             version == FamilyOf(left)
         IN  IF ~AddressOk(left, version) \/ ~AddressOk(right, version)
             THEN [raised |-> "AddressValueError", expressions |-> None]
             ELSE LET r == summarize_address_range(left, right, version)
                  IN  IF r.raised # "none"
                      THEN [raised |-> r.raised, expressions |-> None]
                      ELSE pcap_terms(Tail(rs), acc \o r.nets)

output_pcap_filter(rs) == pcap_terms(rs, <<>>)

\* The IPv4 addresses, and the addresses that only IPv6 has.
V4Addresses == 0..(Pow2(V4Bits) - 1)
V6Addresses == Pow2(V4Bits)..(Pow2(V6Bits) - 1)

\* The bounds of a range are two addresses of one family (section 3 of the
\* specification), in either order.
RangeResults ==
    {[ip_range |-> <<l, r>>] : l, r \in V4Addresses}
    \cup {[ip_range |-> <<l, r>>] : l, r \in V6Addresses}

\* One range, or one range followed by the range 0..1.
ResultLists ==
    {<<x>> : x \in RangeResults}
    \cup {<<x, [ip_range |-> <<0, 1>>]>> : x \in RangeResults}

InitRange ==
    /\ frontend = "main"
    /\ archive = <<>>
    /\ blag_list = None
    /\ map_list = None
    /\ ips = None
    /\ raised = "none"
    /\ last = "init"
    /\ printed = None
    /\ query = None
    /\ asn_query = None
    /\ asn_results = <<>>
    /\ results \in ResultLists
    /\ expressions = None

\* output_pcap_filter(results)
OutputPcapFilter ==
    /\ raised = "none" /\ last = "init"
    /\ LET r == output_pcap_filter(results)
       IN  /\ raised' = r.raised
           /\ expressions' = r.expressions
    /\ last' = "pcap"
    /\ UNCHANGED <<frontend, archive, blag_list, map_list, ips, printed,
                   query, asn_query, asn_results, results>>

NextRange == OutputPcapFilter

SpecRange == InitRange /\ [][NextRange]_vars

----------------------------------------------------------------------------
(* What the claims speak of: the records of the two texts.                 *)

Records(text) == csv_reader(str_split(text))

TextsPresent == ~IsNone(blag_list) /\ ~IsNone(map_list)

\* mr: the records of a mapping text; br: the records of an entries text.
MapWellFormed(mr) == \A i \in 1..Len(mr) : Len(mr[i]) >= 2

TableCodes(mr) == {mr[i][2] : i \in 1..Len(mr)}

\* Field 0 of the last mapping record that carries the code.
DescriptorOf(mr, code) ==
    LET i == CHOOSE j \in 1..Len(mr) :
                 /\ mr[j][2] = code
                 /\ \A k \in (j+1)..Len(mr) : mr[k][2] # code
    IN  mr[i][1]

SomeCodeUnknown(mr, br) ==
    LET known == TableCodes(mr)
    IN  \E i \in 1..Len(br) : \E j \in 2..Len(br[i]) : br[i][j] \notin known

\* The descriptors of the codes of an entries record, in record order.
RecordDescriptors(mr, row) ==
    [j \in 1..(Len(row) - 1) |-> DescriptorOf(mr, row[j + 1])]

EntryAddresses(br) == {br[i][1] : i \in 1..Len(br)}

\* The position of the last entries record of an address.
LastRecordOf(br, a) ==
    CHOOSE i \in 1..Len(br) :
        /\ br[i][1] = a
        /\ \A k \in (i+1)..Len(br) : br[k][1] # a

\* A well-formed dataset has been loaded.
WellFormedLoad(mr, br) ==
    /\ last \in {"parse", "lookup"}
    /\ MapWellFormed(mr) /\ ~SomeCodeUnknown(mr, br)

\* An entries record is found: in the index, and by the lookup that just
\* ran for its address.
FoundAs(mr, row) ==
    LET a == row[1]
        descriptors == RecordDescriptors(mr, row)
    IN  /\ raised = "none"
        /\ ~IsNone(ips)
        /\ DictHas(Val(ips), a)
        /\ DictValue(Val(ips), a) = descriptors
        /\ (last = "lookup" /\ query = Some(a)) =>
               printed = Some(format_line(a, descriptors))

\* C2 as stated: after the load of a well-formed dataset every entries
\* record is found under its address, with the descriptors of the codes
\* listed in that record, in record order.
C2_EveryRecordResolved ==
    TextsPresent =>
        LET mr == Records(Val(map_list))
            br == Records(Val(blag_list))
        IN  WellFormedLoad(mr, br) =>
                \A i \in 1..Len(br) : FoundAs(mr, br[i])

\* C2 as amended: after the load of a well-formed dataset every address of
\* the entries text is found, by the index and by a lookup, with the
\* descriptors of the codes of the last record of that address, in record
\* order.
C2_LastRecordResolved ==
    TextsPresent =>
        LET mr == Records(Val(map_list))
            br == Records(Val(blag_list))
        IN  WellFormedLoad(mr, br) =>
                \A a \in EntryAddresses(br) :
                    FoundAs(mr, br[LastRecordOf(br, a)])

\* A lookup has printed a repeated address whose last record has two codes
\* with different descriptors.
C2_Witness ==
    /\ TextsPresent /\ last = "lookup" /\ ~IsNone(printed)
    /\ LET mr == Records(Val(map_list))
           br == Records(Val(blag_list))
       IN  /\ WellFormedLoad(mr, br)
           /\ Len(br) = 2
           /\ br[1][1] = Val(query) /\ br[2][1] = Val(query)
           /\ Len(br[2]) = 3
           /\ DescriptorOf(mr, br[2][2]) # DescriptorOf(mr, br[2][3])
           /\ RecordDescriptors(mr, br[1]) # RecordDescriptors(mr, br[2])

\* C3: a lookup for a string that is no address of the entries text
\* returns normally and shows no descriptor: the main front end prints
\* nothing, the tools front end prints the query with an empty list.
C3_UnlistedIsNotFound ==
    (last = "lookup"
        /\ Val(query) \notin EntryAddresses(Records(Val(blag_list)))) =>
        /\ raised = "none"
        /\ printed = IF frontend = "main" THEN None
                     ELSE Some(format_line(Val(query), <<>>))

\* An unlisted address has been looked up in an index that lists another
\* address with descriptors.
C3_Witness ==
    /\ last = "lookup"
    /\ LET listed == EntryAddresses(Records(Val(blag_list)))
       IN  /\ Val(query) \notin listed
           /\ \E a \in listed : DictValue(Val(ips), a) # <<>>

\* C4: when the mapping parses and some entries record names a code that is
\* not in the table, the parse ends with KeyError and ips keeps the value
\* it had before the call.
C4_UnresolvedCodeFailsWholeParse ==
    [][(last' = "parse"
          /\ LET mr == Records(Val(map_list'))
                 br == Records(Val(blag_list'))
             IN  MapWellFormed(mr) /\ SomeCodeUnknown(mr, br)) =>
          (raised' = "KeyError" /\ ips' = ips)]_vars

\* The parse failed on the second entries record, after a record that
\* resolves, on an object whose ips had been set before.
C4_Witness ==
    /\ last = "parse" /\ raised = "KeyError" /\ ips = PresetIps
    /\ LET mr == Records(Val(map_list))
           br == Records(Val(blag_list))
       IN  /\ Len(br) = 2
           /\ Len(br[1]) > 1
           /\ ~SomeCodeUnknown(mr, <<br[1]>>)

\* C5: when some record of the mapping text has fewer than 2 fields, the
\* parse ends with IndexError and produces no index: ips keeps the value it
\* had before the call.
C5_ShortMappingRecordFails ==
    [][(last' = "parse" /\ ~MapWellFormed(Records(Val(map_list')))) =>
          (raised' = "IndexError" /\ ips' = ips)]_vars

\* The parse failed on a short mapping record that follows a well-formed
\* one.
C5_Witness ==
    /\ last = "parse" /\ raised = "IndexError"
    /\ LET mr == Records(Val(map_list))
       IN  Len(mr) = 2 /\ Len(mr[1]) = 2 /\ Len(mr[2]) = 1

\* C9: on texts that parse without error the class-based parser and the
\* function-based parser give the same items in the same order, and each
\* address holds the descriptors of its last record only.
C9_ParsersAgree ==
    (last = "parse" /\ raised = "none") =>
        LET other == IF frontend = "tools"
                     THEN fn_parse_blag_contents(Val(blag_list), Val(map_list))
                     ELSE cls_parse_texts(Val(blag_list), Val(map_list))
            mr == Records(Val(map_list))
            br == Records(Val(blag_list))
        IN  /\ other.raised = "none"
            /\ Val(other.ips).items = Val(ips).items
            /\ \A a \in EntryAddresses(br) :
                   DictValue(Val(ips), a)
                       = RecordDescriptors(mr, br[LastRecordOf(br, a)])

\* The class-based parser has loaded a text that repeats an address with
\* different codes.
C9_Witness ==
    /\ last = "parse" /\ raised = "none" /\ frontend = "tools"
    /\ LET mr == Records(Val(map_list))
           br == Records(Val(blag_list))
       IN  /\ Len(br) = 2
           /\ br[1][1] = br[2][1]
           /\ Len(br[1]) > 1 /\ Len(br[2]) > 1
           /\ RecordDescriptors(mr, br[1]) # RecordDescriptors(mr, br[2])

\* C1: an address lookup leaves the index as it was: the same addresses
\* with the same descriptor lists.
C1_LookupLeavesIndexUnchanged ==
    [][(last' = "lookup") => (ips' = ips)]_vars

\* C8 as stated: extraction returns the data of the second member as the
\* entries text and of the third member as the mapping text, whatever the
\* members are named; with fewer than three members it fails and leaves
\* both texts as they were.
C8_ExtractsByPosition ==
    (last \in {"extract", "fetch"}) =>
        IF Len(archive) < 3
        THEN raised # "none" /\ blag_list = None /\ map_list = None
        ELSE (archive[2].data # Undecodable /\ archive[3].data # Undecodable)
             => /\ raised = "none"
                /\ blag_list = Some(archive[2].data)
                /\ map_list = Some(archive[3].data)

AllMatches ==
    LET Matches(entry) == EntryHasAsn(entry, Val(asn_query).asn)
    IN  SelectSeq(Val(ips).items, Matches)

Min(a, b) == IF a <= b THEN a ELSE b

\* C6: lookup_asn returns the entries that have a descriptor of the ASN, in
\* the order of the index; with limit 0 all of them, with limit k > 0 the
\* first k of those (all when there are fewer).
C6_AsnLookupIsLimitedPrefix ==
    (last = "lookup_asn") =>
        LET k == Val(asn_query).limit
            unlimited == lookup_asn(Val(ips), Val(asn_query).asn, 0)
        IN  /\ unlimited = AllMatches
            /\ asn_results = IF k > 0
                             THEN SubSeq(unlimited, 1, Min(k, Len(unlimited)))
                             ELSE unlimited

\* A limited lookup has cut off a match.
C6_Witness ==
    /\ last = "lookup_asn"
    /\ Val(asn_query).limit = 1
    /\ Len(AllMatches) = 2
    /\ Len(asn_results) = 1

RangesOrdered ==
    \A i \in 1..Len(results) :
        results[i].ip_range[1] <= results[i].ip_range[2]

\* The addresses of a network.
Covered(net) ==
    net.network_address ..
        (net.network_address
            + Pow2(MaxPrefixLen(net.version) - net.prefixlen) - 1)

\* C7 as stated: for ranges with low <= high the emitted prefixes cover
\* exactly the addresses low..high of the ranges.
C7_PrefixesCoverExactly ==
    (last = "pcap" /\ RangesOrdered) =>
        /\ raised = "none"
        /\ ~IsNone(expressions)
        /\ UNION {Covered(Val(expressions)[i]) :
                     i \in 1..Len(Val(expressions))}
           = UNION {results[i].ip_range[1] .. results[i].ip_range[2] :
                      i \in 1..Len(results)}

\* The family of an address by the IPv4 width.
TrueFamily(n) == IF n < Pow2(V4Bits) THEN 4 ELSE 6

RangesWithinOneFamily ==
    \A i \in 1..Len(results) :
        TrueFamily(results[i].ip_range[1]) = TrueFamily(results[i].ip_range[2])

\* C10 as stated: every range with low <= high inside one family yields
\* prefixes of the family low has by the IPv4 width, and none is rejected.
C10_FamilyByIPv4Width ==
    (last = "pcap" /\ RangesOrdered /\ RangesWithinOneFamily) =>
        /\ raised = "none"
        /\ ~IsNone(expressions)
        /\ Len(Val(expressions)) >= Len(results)
        /\ Len(results) = 1 =>
              \A i \in 1..Len(Val(expressions)) :
                  Val(expressions)[i].version
                      = TrueFamily(results[1].ip_range[1])

====
